---- MODULE Spec2Model ----
(***************************************************************************)
(* subjectify.py (version 1.8): lookup of DDC/LCC classifiers through the  *)
(* OCLC Classify API, with a per-run cache and a rate limiter.             *)
(*                                                                         *)
(* The program is Python 2 (raw_input, iteritems, csv files opened "wb"),  *)
(* so the model follows Python 2.7: None compares below every integer,     *)
(* requests' response.content is a str, and ElementTree's path predicate   *)
(* [0] selects the last matching element.                                  *)
(*                                                                         *)
(* Python values are tagged tuples, so that None, "", 0 and a missing key  *)
(* stay distinct, as they are in the program.                              *)
(***************************************************************************)
EXTENDS Integers, Sequences, FiniteSets, TLC

VARIABLES
    cfg,                \* what argparse and the column prompts settled
    searches_seen,      \* the cache, (search_type, data) -> {"ddc", "lcc"}
    records_in,         \* the rows read so far, as load_data returned them
    records_out,        \* the rows appended by the main loop
    query_count,        \* main loop counter
    query_since_sleep,  \* main loop flag
    pc,                 \* "loop", "aborted" (uncaught exception), "done"
    error,              \* the uncaught exception's type, "" when none
    made_query,         \* process_row's second result in the last iteration
    calls,              \* the request urls of the last iteration, in order
    served,             \* the service's answers to them, in order
    slept,              \* seconds of time.sleep in the last iteration
    seen_before,        \* searches_seen as the last iteration found it
    outfile             \* what write_data wrote, <<>> before any write

vars == <<cfg, searches_seen, records_in, records_out, query_count,
          query_since_sleep, pc, error, made_query, calls, served, slept,
          seen_before, outfile>>

(***************************************************************************)
(* Bounds of the exploration.                                              *)
(***************************************************************************)
MaxRecords == 3
MaxKeyRecords == 2
MaxBatch == 5
MaxQuoteRecords == 2
\* The rate limiter's thresholds, scaled down: the program's are 25 and 250
\* (10 and 250 with -r); in both the large count is a multiple of the small.
SmallCount == 2
LargeRatio == 2

(***************************************************************************)
(* Python values.                                                          *)
(***************************************************************************)
None == <<"NoneType">>
PyFalse == <<"bool", FALSE>>
PyStr(s) == <<"str", s>>
PyInt(n) == <<"int", n>>
PyTuple(a, b) == <<"tuple", a, b>>
PyDict(f) == <<"dict", f>>
PyList(s) == <<"list", s>>
Element(doc) == <<"Element", doc>>

TypeOf(v) == v[1]

\* bool(v) for the values a column setting can take
Truthy(v) ==
    CASE TypeOf(v) = "NoneType" -> FALSE
      [] TypeOf(v) = "int" -> v[2] # 0
      [] TypeOf(v) = "str" -> v[2] # ""
      [] TypeOf(v) = "list" -> Len(v[2]) > 0
      [] OTHER -> TRUE

\* row[column]: a dict is indexed by name, a list by 0-based position
GetItem(row, column) ==
    IF TypeOf(row) = "dict" THEN row[2][column[2]] ELSE row[2][column[2] + 1]

\* "%s" % v
Format(v) == IF v = None THEN "None" ELSE v[2]

(***************************************************************************)
(* The service.  One answer to one HTTP GET: the request raised, or came   *)
(* back with a status other than 200, or came back with a body.  A body is *)
(* described by what the parser reads from it.                             *)
(***************************************************************************)
Answer(net, wellformed, response, code, ddc, lcc, works) ==
    [net |-> net, wellformed |-> wellformed, response |-> response,
     code |-> code, ddc |-> ddc, lcc |-> lcc, works |-> works]

RequestRaised == Answer("exception", FALSE, "absent", 0, None, None, <<>>)
HttpError == Answer("http", FALSE, "absent", 0, None, None, <<>>)
NotXml == Answer("ok", FALSE, "absent", 0, None, None, <<>>)
NoResponseElement == Answer("ok", TRUE, "absent", 0, None, None, <<>>)
NoCodeAttribute == Answer("ok", TRUE, "nocode", 0, None, None, <<>>)
CodeNotInteger == Answer("ok", TRUE, "badcode", 0, None, None, <<>>)
\* a body with <response code="n"/>; ddc and lcc are the nsfa attributes of
\* the mostPopular recommendations (None: no such element or attribute),
\* works the wi attributes of the <work> elements, in document order
Coded(n, ddc, lcc, works) == Answer("ok", TRUE, "code", n, ddc, lcc, works)
Status(n) == Coded(n, None, None, <<>>)

endpoint_url == "http://classify.oclc.org/classify2/Classify"
base_querystring == "?summary=true&maxRecs=1"

Result(value) == [raised |-> "", value |-> value]
Raised(exc) == [raised |-> exc, value |-> None]

get_tree(xmldata) ==
    IF TypeOf(xmldata) = "str"
    THEN IF xmldata[2].wellformed THEN Element(xmldata[2]) ELSE None
    ELSE IF TypeOf(xmldata) = "Element" THEN xmldata ELSE None

\* query_of putting the quotation marks round every kind of data
query_of_quote_all(searchtype, data, exact) ==
    IF searchtype \in {"isbn", "issn", "wi", "title"}
    THEN IF TypeOf(data) # "str" THEN PyFalse
         ELSE PyStr(searchtype \o "=" \o
                    (IF exact THEN "\"" \o data[2] \o "\"" ELSE data[2]))
    ELSE IF searchtype = "bib"
    THEN IF TypeOf(data) # "tuple" THEN PyFalse
         ELSE LET author == data[2]
                  title == data[3]
              IN IF exact
                 THEN PyStr("author=\"" \o Format(author) \o "\"&title=\""
                            \o Format(title) \o "\"")
                 ELSE PyStr("author=" \o Format(author) \o "&title="
                            \o Format(title))
    ELSE PyFalse

\* The query string of oclc_search, PyFalse when the sanity checks reject.
query_of(searchtype, data, exact) ==
    IF searchtype \in {"isbn", "issn", "wi", "title"}
    THEN IF TypeOf(data) # "str" THEN PyFalse
         ELSE PyStr(searchtype \o "=" \o
                    (IF searchtype = "title" /\ exact
                     THEN "\"" \o data[2] \o "\"" ELSE data[2]))
    ELSE IF searchtype = "bib"
    THEN IF TypeOf(data) # "tuple" THEN PyFalse
         ELSE LET author == data[2]
                  title == data[3]
              IN IF exact
                 THEN PyStr("author=\"" \o Format(author) \o "\"&title=\""
                            \o Format(title) \o "\"")
                 ELSE PyStr("author=" \o Format(author) \o "&title="
                            \o Format(title))
    ELSE PyFalse

\* oclc_search: the url requested (none when rejected) and what is returned
\* when the service gives `answer` to it.
oclc_search(searchtype, data, exact, answer) ==
    LET query == query_of(searchtype, data, exact)
    IN IF query = PyFalse
       THEN [urls |-> <<>>, record |-> PyFalse]
       ELSE [urls |-> <<endpoint_url \o base_querystring \o "&" \o query[2]>>,
             record |-> IF answer.net = "ok" THEN PyStr(answer) ELSE None]

extract_response(record_xml) ==
    LET tree == get_tree(record_xml)
    IN IF tree = None THEN Result(None)
       ELSE CASE tree[2].response = "absent" -> Result(None)
              [] tree[2].response = "nocode" -> Raised("KeyError")
              [] tree[2].response = "badcode" -> Raised("ValueError")
              [] OTHER -> Result(PyInt(tree[2].code))

\* extract_ids with the two recommendations taken from each other's element
extract_ids_swapped(record_xml) ==
    LET tree == get_tree(record_xml)
    IN IF tree = None THEN Result(None)
       ELSE LET code == extract_response(tree)
            IN IF code.raised # "" THEN code
               ELSE IF code.value \notin {PyInt(0), PyInt(2)} THEN Result(None)
               ELSE Result(PyTuple(
                        IF tree[2].lcc = None THEN PyStr("") ELSE tree[2].lcc,
                        IF tree[2].ddc = None THEN PyStr("") ELSE tree[2].ddc))

extract_ids(record_xml) ==
    LET tree == get_tree(record_xml)
    IN IF tree = None THEN Result(None)
       ELSE LET code == extract_response(tree)
            IN IF code.raised # "" THEN code
               ELSE IF code.value \notin {PyInt(0), PyInt(2)} THEN Result(None)
               ELSE Result(PyTuple(
                        IF tree[2].ddc = None THEN PyStr("") ELSE tree[2].ddc,
                        IF tree[2].lcc = None THEN PyStr("") ELSE tree[2].lcc))

\* find("classify:works/classify:work[0]"): ElementPath of Python 2.7 turns
\* the position into index 0 - 1, the last of the element's siblings.
resolve_multiple(record_xml) ==
    LET tree == get_tree(record_xml)
    IN IF tree = None THEN Result(None)
       ELSE LET code == extract_response(tree)
            IN IF code.raised # "" THEN code
               ELSE IF code.value # PyInt(4) THEN Result(None)
               ELSE LET works == tree[2].works
                    IN IF Len(works) = 0 THEN Raised("AttributeError")
                       ELSE IF works[Len(works)] = None THEN Raised("KeyError")
                       ELSE Result(works[Len(works)])

(***************************************************************************)
(* process_row.  Its outcome: the exception it raised ("" when none), the  *)
(* value it returned (None when it fell off its end, else the pair of the  *)
(* row and the query flag), the cache it left and the urls it requested.   *)
(***************************************************************************)
Outcome(raised, value, seen, urls) ==
    [raised |-> raised, value |-> value, seen |-> seen, urls |-> urls]

Return(row, flag, seen, urls) == Outcome("", PyTuple(row, flag), seen, urls)

\* searches_seen[key] = {"ddc": ddc, "lcc": lcc}
Store(seen, key, ddc, lcc) ==
    [k \in DOMAIN seen \cup {key} |->
        IF k = key THEN [ddc |-> ddc, lcc |-> lcc] ELSE seen[k]]

\* row["ddc"], row["lcc"] = ddc, lcc
SetFields(row, ddc, lcc) ==
    PyDict([f \in DOMAIN row[2] \cup {"ddc", "lcc"} |->
               IF f = "ddc" THEN ddc ELSE IF f = "lcc" THEN lcc ELSE row[2][f]])

\* skip_row with the comparison turned round: rows with an empty skip column
\* are the ones skipped
skip_row_empty(row, skip_columns) ==
    /\ Truthy(skip_columns)
    /\ \E i \in 1..Len(skip_columns[2]) :
           GetItem(row, skip_columns[2][i]) = PyStr("")

\* lines 221-229: does a skip column hold data?
skip_row(row, skip_columns) ==
    /\ Truthy(skip_columns)
    /\ \E i \in 1..Len(skip_columns[2]) :
           GetItem(row, skip_columns[2][i]) # PyStr("")

\* lines 231-247: the search type and data, least preferable first
select_search(row, columns) ==
    LET filled(c) == Truthy(c) /\ GetItem(row, c) # PyStr("")
        none == [search_type |-> None, data |-> None]
        bibliographic ==
            IF filled(columns[4])
            THEN IF filled(columns[3])
                 THEN [search_type |-> PyStr("bib"),
                       data |-> PyTuple(GetItem(row, columns[4]),
                                        GetItem(row, columns[3]))]
                 ELSE [search_type |-> PyStr("title"),
                       data |-> GetItem(row, columns[4])]
            ELSE none
        issn ==
            IF filled(columns[2])
            THEN [search_type |-> PyStr("issn"), data |-> GetItem(row, columns[2])]
            ELSE bibliographic
    IN IF filled(columns[1])
       THEN [search_type |-> PyStr("isbn"), data |-> GetItem(row, columns[1])]
       ELSE issn

\* lines 252-259: the search was done before
cache_hit(row, key, seen) ==
    IF TypeOf(row) = "dict"
    THEN Return(SetFields(row, seen[key].ddc, seen[key].lcc), FALSE, seen, <<>>)
    ELSE \* list.extend() takes exactly one argument (2 given)
         Outcome("TypeError", None, seen, <<>>)

\* lines 266-270, 304-311: nothing found, the nil result is cached
nil_result(row, key, seen, urls) ==
    Return(row, TRUE, Store(seen, key, None, None), urls)

\* lines 271-282 and 292-303: extract the ids of a single work record, put
\* them in the row and in the cache
single_work(row, key, seen, record, urls) ==
    LET ids == extract_ids(record)
    IN IF ids.raised # "" THEN Outcome(ids.raised, None, seen, urls)
       ELSE IF ids.value = None THEN Outcome("TypeError", None, seen, urls)
       ELSE IF TypeOf(row) = "dict"
       THEN LET out == SetFields(row, ids.value[2], ids.value[3])
            IN Return(out, TRUE,
                      Store(seen, key, out[2]["ddc"], out[2]["lcc"]), urls)
       ELSE LET out == PyList(row[2] \o <<ids.value[2], ids.value[3]>>)
            IN Return(out, TRUE,
                      Store(seen, key, out[2][Len(out[2]) - 1],
                            out[2][Len(out[2])]), urls)

\* multi_work caching the resolved ids under the work identifier's key
multi_work_wi_key(row, key, seen, record, urls, answer) ==
    LET wi == resolve_multiple(record)
    IN IF wi.raised # "" THEN Outcome(wi.raised, None, seen, urls)
       ELSE IF Truthy(wi.value)
       THEN LET parent == oclc_search("wi", wi.value, TRUE, answer)
                parent_status == extract_response(parent.record)
                all == urls \o parent.urls
            IN IF parent_status.raised # ""
               THEN Outcome(parent_status.raised, None, seen, all)
               ELSE IF parent_status.value \in {PyInt(0), PyInt(2)}
               THEN single_work(row, <<PyStr("wi"), wi.value>>, seen,
                                parent.record, all)
               ELSE nil_result(row, key, seen, all)
       ELSE nil_result(row, key, seen, urls)

\* multi_work returning after an unresolved follow-up without the nil result
\* put in the cache
multi_work_no_store(row, key, seen, record, urls, answer) ==
    LET wi == resolve_multiple(record)
    IN IF wi.raised # "" THEN Outcome(wi.raised, None, seen, urls)
       ELSE IF Truthy(wi.value)
       THEN LET parent == oclc_search("wi", wi.value, TRUE, answer)
                parent_status == extract_response(parent.record)
                all == urls \o parent.urls
            IN IF parent_status.raised # ""
               THEN Outcome(parent_status.raised, None, seen, all)
               ELSE IF parent_status.value \in {PyInt(0), PyInt(2)}
               THEN single_work(row, key, seen, parent.record, all)
               ELSE Return(row, TRUE, seen, all)
       ELSE nil_result(row, key, seen, urls)

\* lines 284-311: a multi-work record, resolved through its work identifier
multi_work(row, key, seen, record, urls, answer) ==
    LET wi == resolve_multiple(record)
    IN IF wi.raised # "" THEN Outcome(wi.raised, None, seen, urls)
       ELSE IF Truthy(wi.value)
       THEN LET parent == oclc_search("wi", wi.value, TRUE, answer)
                parent_status == extract_response(parent.record)
                all == urls \o parent.urls
            IN IF parent_status.raised # ""
               THEN Outcome(parent_status.raised, None, seen, all)
               ELSE IF parent_status.value \in {PyInt(0), PyInt(2)}
               THEN single_work(row, key, seen, parent.record, all)
               ELSE nil_result(row, key, seen, all)
       ELSE nil_result(row, key, seen, urls)

\* first_query without the `status is None` test: in Python 2 None >= 100 is
\* false, so an absent status reaches the end of the function
first_query_no_none(row, search, seen, exact, answer1, answer2) ==
    LET key == <<search.search_type, search.data>>
        first == oclc_search(search.search_type[2], search.data, exact, answer1)
        status == extract_response(first.record)
    IN IF status.raised # "" THEN Outcome(status.raised, None, seen, first.urls)
       ELSE IF status.value # None /\ status.value[2] >= 100
       THEN nil_result(row, key, seen, first.urls)
       ELSE IF status.value \in {PyInt(0), PyInt(2)}
       THEN single_work(row, key, seen, first.record, first.urls)
       ELSE IF status.value = PyInt(4)
       THEN multi_work(row, key, seen, first.record, first.urls, answer2)
       ELSE Outcome("", None, seen, first.urls)

\* first_query asking once more when the first answer is a failure
first_query_retry(row, search, seen, exact, answer1, answer2) ==
    LET key == <<search.search_type, search.data>>
        first == oclc_search(search.search_type[2], search.data, exact, answer1)
        status == extract_response(first.record)
    IN IF status.raised # "" THEN Outcome(status.raised, None, seen, first.urls)
       ELSE IF status.value = None \/ status.value[2] >= 100
       THEN LET again == oclc_search(search.search_type[2], search.data, exact,
                                     answer2)
                urls == first.urls \o again.urls
                second == extract_response(again.record)
            IN IF second.raised # "" THEN Outcome(second.raised, None, seen, urls)
               ELSE IF second.value \in {PyInt(0), PyInt(2)}
               THEN single_work(row, key, seen, again.record, urls)
               ELSE nil_result(row, key, seen, urls)
       ELSE IF status.value \in {PyInt(0), PyInt(2)}
       THEN single_work(row, key, seen, first.record, first.urls)
       ELSE IF status.value = PyInt(4)
       THEN multi_work(row, key, seen, first.record, first.urls, answer2)
       ELSE Outcome("", None, seen, first.urls)

\* lines 261-311: the first query and what follows from its status
first_query(row, search, seen, exact, answer1, answer2) ==
    LET key == <<search.search_type, search.data>>
        first == oclc_search(search.search_type[2], search.data, exact, answer1)
        status == extract_response(first.record)
    IN IF status.raised # "" THEN Outcome(status.raised, None, seen, first.urls)
       ELSE IF status.value = None \/ status.value[2] >= 100
       THEN nil_result(row, key, seen, first.urls)
       ELSE IF status.value \in {PyInt(0), PyInt(2)}
       THEN single_work(row, key, seen, first.record, first.urls)
       ELSE IF status.value = PyInt(4)
       THEN multi_work(row, key, seen, first.record, first.urls, answer2)
       ELSE \* no branch for this status: the function ends without a return
            Outcome("", None, seen, first.urls)

\* process_row without the look in the cache
process_row_no_cache(row, columns, skip_columns, seen, exact, answer1, answer2) ==
    IF skip_row(row, skip_columns) THEN Return(row, FALSE, seen, <<>>)
    ELSE LET search == select_search(row, columns)
         IN IF search.search_type = None THEN Return(row, FALSE, seen, <<>>)
            ELSE first_query(row, search, seen, exact, answer1, answer2)

process_row(row, columns, skip_columns, seen, exact, answer1, answer2) ==
    IF skip_row(row, skip_columns) THEN Return(row, FALSE, seen, <<>>)
    ELSE LET search == select_search(row, columns)
         IN IF search.search_type = None THEN Return(row, FALSE, seen, <<>>)
            ELSE IF <<search.search_type, search.data>> \in DOMAIN seen
            THEN cache_hit(row, <<search.search_type, search.data>>, seen)
            ELSE first_query(row, search, seen, exact, answer1, answer2)

(***************************************************************************)
(* The main program: settings, the rate limiter, write_data, the loop.     *)
(***************************************************************************)
default_fields == <<"isbn", "issn", "author", "title">>

\* rate_config, and the alternate one of -r
rate_config(rate) ==
    IF rate
    THEN [small_count |-> 1, small_sleep |-> 5,
          large_count |-> SmallCount * LargeRatio, large_sleep |-> 300]
    ELSE [small_count |-> SmallCount, small_sleep |-> 10,
          large_count |-> SmallCount * LargeRatio, large_sleep |-> 120]

\* rate_limiter without the query_since_sleep flag
rate_limiter_no_flag(count, since_sleep, rc) ==
    IF count % rc.small_count = 0
    THEN IF count % rc.large_count = 0
         THEN [slept |-> rc.large_sleep, since_sleep |-> FALSE, large |-> TRUE]
         ELSE [slept |-> rc.small_sleep, since_sleep |-> FALSE, large |-> FALSE]
    ELSE [slept |-> 0, since_sleep |-> since_sleep, large |-> FALSE]

\* rate_limiter without the test for the large count
rate_limiter_small_only(count, since_sleep, rc) ==
    IF count % rc.small_count = 0 /\ since_sleep
    THEN [slept |-> rc.small_sleep, since_sleep |-> FALSE, large |-> FALSE]
    ELSE [slept |-> 0, since_sleep |-> since_sleep, large |-> FALSE]

\* lines 467-481: seconds to sleep after a row, the flag it leaves, and
\* whether it was the large sleep
rate_limiter(count, since_sleep, rc) ==
    IF count % rc.small_count = 0 /\ since_sleep
    THEN IF count % rc.large_count = 0
         THEN [slept |-> rc.large_sleep, since_sleep |-> FALSE, large |-> TRUE]
         ELSE [slept |-> rc.small_sleep, since_sleep |-> FALSE, large |-> FALSE]
    ELSE [slept |-> 0, since_sleep |-> since_sleep, large |-> FALSE]

\* a cell as the csv module writes it: None becomes the empty string
csv_cell(v) == IF v = None THEN "" ELSE v[2]

\* write_data: the lines written after the header.  A DictWriter writes the
\* fields in order, then lcc and ddc, a key the row lacks as "".
write_data(records, fields) ==
    [i \in 1..Len(records) |->
        IF fields # None
        THEN LET names == fields[2] \o <<"lcc", "ddc">>
             IN [j \in 1..Len(names) |->
                    IF names[j] \in DOMAIN records[i][2]
                    THEN csv_cell(records[i][2][names[j]]) ELSE ""]
        ELSE [j \in 1..Len(records[i][2]) |-> csv_cell(records[i][2][j])]]

\* A run's settings.  fields is None when rows are positional lists (-c),
\* else the names of the file's columns.
Setting(fields, columns, skip_columns, exact, rate, write) ==
    [output_fields |-> fields, columns |-> columns,
     skip_columns |-> skip_columns, exact_searches |-> exact,
     rate |-> rate, write |-> write]

\* no options: columns = default_fields
DefaultSetting(exact, rate, write) ==
    Setting(PyList(default_fields),
            [i \in 1..4 |-> PyStr(default_fields[i])], None, exact, rate, write)

\* -f: each of the four is the file's column find_field found, or None; the
\* file's other columns matter when -e names them
FileSetting(found, others, skip_columns) ==
    Setting(PyList(SelectSeq(default_fields, LAMBDA f : f \in found) \o others),
            [i \in 1..4 |-> IF default_fields[i] \in found
                            THEN PyStr(default_fields[i]) ELSE None],
            skip_columns, TRUE, FALSE, FALSE)

\* -c: four 0-based column numbers
ColumnSetting(numbers, exact) ==
    Setting(None, [i \in 1..4 |-> PyInt(numbers[i])], None, exact, FALSE, FALSE)

\* The row load_data gives for a line holding `rec` (a value per kind of
\* data, "" for an empty cell) under setting c.
MakeRow(c, rec) ==
    IF c.output_fields # None
    THEN PyDict([f \in {c.output_fields[2][i] : i \in 1..Len(c.output_fields[2])}
                    |-> PyStr(rec[f])])
    ELSE PyList([p \in 1..4 |->
                    PyStr(rec[default_fields[
                        CHOOSE i \in 1..4 : c.columns[i] = PyInt(p - 1)]])])

\* One pass of the loop at lines 458-481, for the next row of the file and
\* the service's answers to the queries it makes.
Iterate(row, answer1, answer2) ==
    LET out == process_row(row, cfg.columns, cfg.skip_columns, searches_seen,
                           cfg.exact_searches, answer1, answer2)
        flag == out.value[3]
        count == IF flag THEN query_count + 1 ELSE query_count
        limit == rate_limiter(count, flag \/ query_since_sleep,
                              rate_config(cfg.rate))
    IN /\ pc = "loop"
       /\ seen_before' = searches_seen
       /\ searches_seen' = out.seen
       /\ records_in' = Append(records_in, row)
       /\ calls' = out.urls
       /\ served' = SubSeq(<<answer1, answer2>>, 1, Len(out.urls))
       /\ UNCHANGED cfg
       /\ IF out.raised # "" \/ out.value = None
          THEN \* the exception is not caught; unpacking None raises TypeError
               /\ pc' = "aborted"
               /\ error' = IF out.raised # "" THEN out.raised ELSE "TypeError"
               /\ made_query' = FALSE
               /\ slept' = 0
               /\ UNCHANGED <<records_out, query_count, query_since_sleep, outfile>>
          ELSE /\ pc' = "loop"
               /\ error' = ""
               /\ records_out' = Append(records_out, out.value[2])
               /\ made_query' = flag
               /\ query_count' = count
               /\ query_since_sleep' = limit.since_sleep
               /\ slept' = limit.slept
               /\ outfile' = IF limit.large /\ cfg.write
                             THEN write_data(records_out', cfg.output_fields)
                             ELSE outfile

\* lines 483-486: the file has no more rows
Finish ==
    /\ pc = "loop"
    /\ pc' = "done"
    /\ outfile' = write_data(records_out, cfg.output_fields)
    /\ UNCHANGED <<cfg, searches_seen, records_in, records_out, query_count,
                   query_since_sleep, error, made_query, calls, served, slept,
                   seen_before>>

\* lines 455-457
Start(settings) ==
    /\ cfg \in settings
    /\ searches_seen = <<>>
    /\ records_in = <<>>
    /\ records_out = <<>>
    /\ query_count = 0
    /\ query_since_sleep = FALSE
    /\ pc = "loop"
    /\ error = ""
    /\ made_query = FALSE
    /\ calls = <<>>
    /\ served = <<>>
    /\ slept = 0
    /\ seen_before = <<>>
    /\ outfile = <<>>

\* The next row is one of `records`, the answers are among `answers`; an
\* answer is drawn only for a query the row makes.
Process(records, answers) ==
    \E row \in {MakeRow(cfg, rec) : rec \in records} :
        LET urls(a1) == process_row(row, cfg.columns, cfg.skip_columns,
                                    searches_seen, cfg.exact_searches,
                                    a1, RequestRaised).urls
        IN \E a1 \in IF urls(RequestRaised) = <<>> THEN {RequestRaised} ELSE answers :
               \E a2 \in IF Len(urls(a1)) < 2 THEN {RequestRaised} ELSE answers :
                   Iterate(row, a1, a2)

(***************************************************************************)
(* Specifications.  Each draws the settings, the rows and the service's    *)
(* answers from a finite family.                                           *)
(***************************************************************************)
Rec(isbn, issn, author, title, classmark) ==
    [isbn |-> isbn, issn |-> issn, author |-> author, title |-> title,
     classmark |-> classmark]

\* The resolution of a record: few rows, every kind of answer.
Settings ==
    { DefaultSetting(TRUE, FALSE, FALSE),
      ColumnSetting(<<0, 1, 2, 3>>, TRUE),
      ColumnSetting(<<1, 0, 2, 3>>, TRUE),
      FileSetting({"isbn", "author", "title"}, <<"classmark">>,
                  PyList(<<PyStr("classmark")>>)) }

Records ==
    { Rec(i[1], "", i[2], i[3], c) :
        i \in { <<"", "", "">>, <<"9780135957059", "", "">>,
                <<"", "Twain", "Roughing It">> },
        c \in {"", "QA76"} }

Works ==
    { <<>>, <<None>>, <<PyStr("")>>, <<PyStr("12345")>>,
      <<PyStr("12345"), PyStr("67890")>> }

Answers ==
    { RequestRaised, HttpError, NotXml, NoResponseElement, NoCodeAttribute,
      CodeNotInteger, Status(3), Status(100), Status(101), Status(102),
      Status(200) }
    \cup { Coded(n, d, l, <<>>) : n \in {0, 2}, d \in {None, PyStr("813")},
                                  l \in {None, PyStr("PS1318")} }
    \cup { Coded(4, None, None, w) : w \in Works }

Init == Start(Settings)

Resolve == Len(records_in) < MaxRecords /\ Process(Records, Answers)

Next == Resolve \/ Finish

Spec == Init /\ [][Next]_vars

\* The choice of the search key: every combination of filled cells and of
\* columns found, two kinds of answer.
KeySettings ==
    { FileSetting(found, <<>>, None) :
        found \in SUBSET {default_fields[i] : i \in 1..4} }
    \cup { DefaultSetting(FALSE, FALSE, FALSE) }
    \cup { ColumnSetting(numbers, exact) :
             numbers \in {<<0, 1, 2, 3>>, <<1, 0, 2, 3>>}, exact \in BOOLEAN }

KeyRecords ==
    { Rec(isbn, issn, author, title, "") :
        isbn \in {"", "0131103628"}, issn \in {"", "1234-5678"},
        author \in {"", "Twain"}, title \in {"", "Roughing It"} }

KeyAnswers == { Status(102), Coded(0, PyStr("813"), PyStr("PS1318"), <<>>) }

InitKeys == Start(KeySettings)

ResolveKeys == Len(records_in) < MaxKeyRecords /\ Process(KeyRecords, KeyAnswers)

NextKeys == ResolveKeys \/ Finish

SpecKeys == InitKeys /\ [][NextKeys]_vars

\* The batch and its pacing: longer files, one row per kind of key.
BatchSettings ==
    { DefaultSetting(TRUE, FALSE, FALSE), DefaultSetting(TRUE, TRUE, FALSE),
      DefaultSetting(TRUE, FALSE, TRUE),
      FileSetting({"isbn", "issn"}, <<"classmark">>,
                  PyList(<<PyStr("classmark")>>)) }

BatchRecords ==
    { Rec("0131103628", "", "", "", ""), Rec("", "1234-5678", "", "", ""),
      Rec("", "", "", "Roughing It", ""), Rec("", "", "Twain", "Roughing It", ""),
      Rec("", "", "", "", ""), Rec("0131103628", "", "", "", "QA76") }

InitBatch == Start(BatchSettings)

ResolveBatch == Len(records_in) < MaxBatch /\ Process(BatchRecords, KeyAnswers)

NextBatch == ResolveBatch \/ Finish

SpecBatch == InitBatch /\ [][NextBatch]_vars

\* The query strings: every kind of key with and without -l (exact_searches
\* off), and multi-work answers so that the wi query is made.
QuoteSettings ==
    { DefaultSetting(TRUE, FALSE, FALSE), DefaultSetting(FALSE, FALSE, FALSE),
      ColumnSetting(<<0, 1, 2, 3>>, FALSE) }

QuoteRecords ==
    { Rec("0131103628", "", "", "", ""), Rec("", "1234-5678", "", "", ""),
      Rec("", "", "", "Roughing It", ""), Rec("", "", "Twain", "Roughing It", "") }

QuoteAnswers ==
    { Status(102), Coded(0, PyStr("813"), PyStr("PS1318"), <<>>),
      Coded(4, None, None, <<PyStr("12345")>>) }

InitQuote == Start(QuoteSettings)

ResolveQuote ==
    Len(records_in) < MaxQuoteRecords /\ Process(QuoteRecords, QuoteAnswers)

NextQuote == ResolveQuote \/ Finish

SpecQuote == InitQuote /\ [][NextQuote]_vars

(***************************************************************************)
(* What the properties below speak of: the iteration last taken.           *)
(***************************************************************************)
Ran == records_in # <<>>
Last == records_in[Len(records_in)]
LastOut == records_out[Len(records_out)]
\* process_row returned and the loop appended its row
Returned == pc # "aborted" /\ Len(records_out) = Len(records_in)
LastSearch == select_search(Last, cfg.columns)
LastKey == <<LastSearch.search_type, LastSearch.data>>
\* a skip column is set for the run and one holds data in the last row
LastSkipped ==
    /\ cfg.skip_columns # None
    /\ \E i \in 1..Len(cfg.skip_columns[2]) :
           GetItem(Last, cfg.skip_columns[2][i]) # PyStr("")
\* the row came back untouched, nothing was asked and nothing cached
Untouched ==
    /\ Returned
    /\ LastOut = Last
    /\ made_query = FALSE
    /\ calls = <<>>
    /\ searches_seen = seen_before

\* The preference of the specification, over the columns that are set (not
\* None) and whose cell is not empty.
Configured(i) == cfg.columns[i] # None
Filled(row, i) == Configured(i) /\ GetItem(row, cfg.columns[i]) # PyStr("")
PreferredType(row) ==
    IF Filled(row, 1) THEN PyStr("isbn")
    ELSE IF Filled(row, 2) THEN PyStr("issn")
    ELSE IF Filled(row, 4) /\ Filled(row, 3) THEN PyStr("bib")
    ELSE IF Filled(row, 4) THEN PyStr("title")
    ELSE None

\* C1: for every row and every column setting the search type is isbn when
\* the ISBN column is set and filled, else issn when the ISSN column is set
\* and filled, else bib when title and author are, else title when the title
\* is; when none is, the row is returned untouched with no query made, no
\* request and the cache as it was.
C1_KeyPreference ==
    Ran /\ ~LastSkipped =>
        /\ LastSearch.search_type = PreferredType(Last)
        /\ PreferredType(Last) = None => Untouched

\* The classification a row carries into the output file: the ddc and lcc
\* cells of a mapping, the cells added to a positional row.
Classification(row) ==
    IF TypeOf(row) = "dict"
    THEN [f \in {"ddc", "lcc"} |->
             IF f \in DOMAIN row[2] THEN csv_cell(row[2][f]) ELSE ""]
    ELSE [k \in 1..(Len(row[2]) - 4) |-> csv_cell(row[2][k + 4])]

RowSkipped(row) ==
    /\ cfg.skip_columns # None
    /\ \E i \in 1..Len(cfg.skip_columns[2]) :
           GetItem(row, cfg.skip_columns[2][i]) # PyStr("")
KeyOf(row) ==
    <<select_search(row, cfg.columns).search_type,
      select_search(row, cfg.columns).data>>
\* the row is not skipped and yields a search key
Searched(row) == ~RowSkipped(row) /\ KeyOf(row)[1] # None

\* C2: when two rows of a run yield the same search key, the second
\* resolution makes no request, returns query_made = false and leaves its
\* row with the same ddc/lcc output as the first left in its row, whatever
\* the first resolution came to.
C2_CacheIdempotence ==
    \A j \in 1..Len(records_in) : \A i \in 1..(j - 1) :
        ( /\ Searched(records_in[i]) /\ Searched(records_in[j])
          /\ KeyOf(records_in[i]) = KeyOf(records_in[j]) )
        => /\ j <= Len(records_out)
           /\ Classification(records_out[j]) = Classification(records_out[i])
           /\ j = Len(records_in) => calls = <<>> /\ made_query = FALSE

\* C3: a row with data in a skip column is returned unchanged with
\* query_made = false, no request is made and the cache is left as it was,
\* whatever its other cells hold and whether or not its key is cached.
C3_SkipSemantics == Ran /\ LastSkipped => Untouched

\* a skipped row whose ISBN search is already in the cache
C3_SkippedThoughCached ==
    /\ Ran /\ LastSkipped /\ pc = "loop"
    /\ LastSearch.search_type = PyStr("isbn")
    /\ LastKey \in DOMAIN seen_before
    /\ LastOut = Last

\* What an answer is, by the status the service put in it.
Parsed(a) == a.net = "ok" /\ a.wellformed /\ a.response = "code"
SingleWork(a) == Parsed(a) /\ a.code \in {0, 2}
MultiWork(a) == Parsed(a) /\ a.code = 4
\* every work listed carries a work identifier, and one is listed
HasWorkId(a) ==
    /\ Len(a.works) > 0
    /\ \A i \in 1..Len(a.works) : a.works[i] \notin {None, PyStr("")}
OrEmpty(v) == IF v = None THEN PyStr("") ELSE v
UrlOf(query) == endpoint_url \o base_querystring \o "&" \o query

\* the last row came back as it was read, but for ddc and lcc
Carries(ddc, lcc) ==
    IF TypeOf(Last) = "dict"
    THEN /\ TypeOf(LastOut) = "dict"
         /\ DOMAIN LastOut[2] = DOMAIN Last[2] \cup {"ddc", "lcc"}
         /\ LastOut[2]["ddc"] = ddc /\ LastOut[2]["lcc"] = lcc
         /\ \A f \in DOMAIN Last[2] \ {"ddc", "lcc"} : LastOut[2][f] = Last[2][f]
    ELSE LastOut = PyList(Last[2] \o <<ddc, lcc>>)

\* the cache gained the last row's key with this pair, and nothing else
CachedAs(ddc, lcc) ==
    /\ LastKey \notin DOMAIN seen_before
    /\ DOMAIN searches_seen = DOMAIN seen_before \cup {LastKey}
    /\ searches_seen[LastKey] = [ddc |-> ddc, lcc |-> lcc]
    /\ \A k \in DOMAIN seen_before : searches_seen[k] = seen_before[k]

\* C4: when the first query's answer has status 0 or 2, the row gets exactly
\* that answer's most popular DDC and LCC (each "" when the answer lacks it),
\* the same pair is cached under the row's key, one request is made and
\* query_made is true.
C4_SingleMatch ==
    Ran /\ served # <<>> /\ SingleWork(served[1]) =>
        /\ Returned
        /\ Carries(OrEmpty(served[1].ddc), OrEmpty(served[1].lcc))
        /\ CachedAs(OrEmpty(served[1].ddc), OrEmpty(served[1].lcc))
        /\ Len(calls) = 1
        /\ made_query = TRUE

\* a status-2 answer with an LCC and no DDC was written into a row
C4_SingleMatchNoDdc ==
    /\ Ran /\ pc = "loop" /\ Len(served) = 1
    /\ SingleWork(served[1]) /\ served[1].code = 2
    /\ served[1].ddc = None /\ served[1].lcc = PyStr("PS1318")
    /\ searches_seen[LastKey] = [ddc |-> PyStr(""), lcc |-> PyStr("PS1318")]

\* C5: when the first answer has status 4 and a work identifier, two requests
\* are made, first the row's own search and then the wi search; when that
\* second answer has status 0 or 2 the row gets its DDC and LCC (a missing
\* one as ""), the pair is cached under the row's own key and under no wi
\* key, and the row is returned once with query_made true.
C5_MultiMatchResolved ==
    Ran /\ served # <<>> /\ MultiWork(served[1]) /\ HasWorkId(served[1]) =>
        /\ Len(calls) = 2 /\ Len(served) = 2
        /\ calls[1] = UrlOf(query_of(LastSearch.search_type[2], LastSearch.data,
                                     cfg.exact_searches)[2])
        /\ \E i \in 1..Len(served[1].works) :
               calls[2] = UrlOf("wi=" \o served[1].works[i][2])
        /\ SingleWork(served[2]) =>
               /\ Returned
               /\ Carries(OrEmpty(served[2].ddc), OrEmpty(served[2].lcc))
               /\ CachedAs(OrEmpty(served[2].ddc), OrEmpty(served[2].lcc))
               /\ \A k \in DOMAIN searches_seen : k[1] # PyStr("wi")
               /\ made_query = TRUE

\* status 4 listing work 12345, then status 2 with DDC 813 and no LCC
C5_ResolvedThroughWork ==
    /\ Ran /\ pc = "loop" /\ Len(served) = 2
    /\ MultiWork(served[1]) /\ served[1].works = <<PyStr("12345")>>
    /\ served[2] = Coded(2, PyStr("813"), None, <<>>)
    /\ calls[2] = UrlOf("wi=12345")
    /\ searches_seen[LastKey] = [ddc |-> PyStr("813"), lcc |-> PyStr("")]

\* empty as the output file shows it: the csv module writes "" for None
Empty(v) == csv_cell(v) = ""

\* C6: when the first answer has a status of 100 or above the empty pair is
\* cached under the row's key and query_made is true; a later row with the
\* same key is resolved with no request and is left with empty ddc and lcc.
\* (The cache's None is counted as empty here, as it is written to the file.)
C6_FailureCaching ==
    /\ Ran /\ served # <<>> /\ Parsed(served[1]) /\ served[1].code >= 100 =>
           /\ Returned /\ made_query = TRUE
           /\ LastKey \in DOMAIN searches_seen \ DOMAIN seen_before
           /\ Empty(searches_seen[LastKey].ddc)
           /\ Empty(searches_seen[LastKey].lcc)
    /\ ( /\ Ran /\ Searched(Last) /\ LastKey \in DOMAIN seen_before
         /\ Empty(seen_before[LastKey].ddc) /\ Empty(seen_before[LastKey].lcc) )
       => /\ Returned /\ calls = <<>>
          /\ \A k \in DOMAIN Classification(LastOut) :
                 Classification(LastOut)[k] = ""
          /\ Cardinality(DOMAIN Classification(LastOut)) = 2

\* the first answer is no answer, or a body that is not XML
Unreadable(a) == a.net # "ok" \/ ~a.wellformed

\* C7: a first query that gets no answer (the request raises, or the HTTP
\* status is not 200) or a body that cannot be parsed ends as one answered
\* with status 102 does: the row as it was, the same entry added to the
\* cache under the row's key, one request, query_made true.
C7_UnreadableAsNotFound ==
    Ran /\ served # <<>> /\ Unreadable(served[1]) =>
        LET notfound == process_row(Last, cfg.columns, cfg.skip_columns,
                                    seen_before, cfg.exact_searches,
                                    Status(102), RequestRaised)
        IN /\ Returned
           /\ LastOut = notfound.value[2] /\ LastOut = Last
           /\ made_query = notfound.value[3] /\ made_query = TRUE
           /\ searches_seen = notfound.seen
           /\ LastKey \in DOMAIN searches_seen \ DOMAIN seen_before
           /\ calls = notfound.urls /\ Len(calls) = 1

\* a body that is not XML was answered to a row's first query
C7_NotXmlCached ==
    /\ Ran /\ pc = "loop" /\ served = <<NotXml>>
    /\ LastOut = Last /\ made_query = TRUE
    /\ searches_seen[LastKey] = [ddc |-> None, lcc |-> None]

\* the kinds of answer C8 speaks of: no answer, a failure status, a body
\* that cannot be parsed, a multi-work or a single-work answer
ClaimedKind(a) ==
    \/ a.net # "ok"
    \/ ~a.wellformed \/ a.response # "code"
    \/ a.code >= 100 \/ a.code \in {0, 2, 4}
\* the cells a row was read with are the cells it has in the output
SameCells(in, out) ==
    IF TypeOf(in) = "dict"
    THEN \A f \in DOMAIN in[2] \ {"ddc", "lcc"} :
             f \in DOMAIN out[2] /\ out[2][f] = in[2][f]
    ELSE SubSeq(out[2], 1, Len(in[2])) = in[2]

\* C8: whatever rows are read and whatever the service answers (no answer,
\* failure status, unparseable body, multi-work answer that does not lead to
\* a single work, or success), the loop does not abort: every row read has
\* its output row, in order, and a row whose lookup failed is left without
\* classification and has an empty cache entry under its key.
C8_BatchNeverAborts ==
    (\A i \in 1..Len(served) : ClaimedKind(served[i])) =>
        /\ pc # "aborted"
        /\ Len(records_out) = Len(records_in)
        /\ \A j \in 1..Len(records_out) : SameCells(records_in[j], records_out[j])
        /\ pc = "done" => Len(outfile) = Len(records_in)
        /\ Ran /\ served # <<>> /\ ~SingleWork(served[Len(served)]) =>
               /\ LastOut = Last
               /\ LastKey \in DOMAIN searches_seen
               /\ Empty(searches_seen[LastKey].ddc)
               /\ Empty(searches_seen[LastKey].lcc)

\* C9: in a run a cache entry is written once: a key in searches_seen keeps
\* its value and is never removed, and no request is made for a row whose
\* key is already there.
C9_CacheWrittenOnce ==
    [][ /\ \A k \in DOMAIN searches_seen :
               k \in DOMAIN searches_seen' /\ searches_seen'[k] = searches_seen[k]
        /\ Cardinality(DOMAIN searches_seen') <= Cardinality(DOMAIN searches_seen) + 1
        /\ records_in' # records_in /\ calls' # <<>> =>
               KeyOf(records_in'[Len(records_in')]) \notin DOMAIN searches_seen
      ]_vars

\* a row was resolved from a cache that already held its key
C9_HitLeftCacheAlone ==
    /\ Ran /\ pc = "loop" /\ Searched(Last)
    /\ LastKey \in DOMAIN seen_before
    /\ calls = <<>> /\ made_query = FALSE
    /\ searches_seen = seen_before

\* C10: with thresholds N (small_count) and M (large_count) the loop sleeps
\* small_sleep after every N-th query and large_sleep after every M-th (the
\* large sleep alone where both fall due); the query count advances by one
\* with each row for which query_made is true and with no other: not with a
\* row that is skipped, has no key or is found in the cache.
C10_Pacing ==
    [][ records_in' # records_in /\ pc' = "loop" =>
            LET rc == rate_config(cfg.rate)
                row == records_in'[Len(records_in')]
            IN /\ query_count' = IF made_query' THEN query_count + 1
                                 ELSE query_count
               /\ ( \/ RowSkipped(row) \/ KeyOf(row)[1] = None
                    \/ KeyOf(row) \in DOMAIN searches_seen )
                  => query_count' = query_count
               /\ made_query' /\ query_count' % rc.large_count = 0 =>
                      slept' = rc.large_sleep
               /\ ( /\ made_query' /\ query_count' % rc.small_count = 0
                    /\ query_count' % rc.large_count # 0 )
                  => slept' = rc.small_sleep
      ]_vars

\* the row making the M-th query of a run was followed by the large sleep
C10_LargeSleepTaken ==
    /\ Ran /\ pc = "loop" /\ made_query = TRUE /\ cfg.rate = FALSE
    /\ query_count = rate_config(FALSE).large_count
    /\ slept = rate_config(FALSE).large_sleep

\* C11: when the first answer has status 4 and no work identifier can be read
\* from it (no work is listed, or the work lacks the identifier or has an
\* empty one), process_row does not raise: one request is made, the row is
\* returned as it was with query_made true, and the empty pair is cached
\* under the row's key.
C11_MultiMatchUnpinned ==
    Ran /\ served # <<>> /\ MultiWork(served[1]) /\ ~HasWorkId(served[1]) =>
        /\ Returned
        /\ Len(calls) = 1
        /\ LastOut = Last
        /\ made_query = TRUE
        /\ LastKey \in DOMAIN searches_seen \ DOMAIN seen_before
        /\ Empty(searches_seen[LastKey].ddc)
        /\ Empty(searches_seen[LastKey].lcc)

\* what a follow-up answer is when it is not a single work: no answer, a
\* body that is not XML or has no response element, or any other status
Unresolved(a) ==
    \/ Unreadable(a)
    \/ a.response = "absent"
    \/ Parsed(a) /\ a.code \notin {0, 2}

\* C12: when the first answer has status 4 with a work identifier and the
\* answer to the wi query is not a single work (status 4 again, a status of
\* 100 or above, no answer, a body that cannot be parsed), there are two
\* requests and no third, the row is returned as it was with query_made
\* true, and the empty result (None for ddc and for lcc, written to the file
\* as empty cells) is cached under the row's own key and under no wi key.
C12_FollowUpUnresolved ==
    ( /\ Ran /\ Len(served) = 2
      /\ MultiWork(served[1]) /\ HasWorkId(served[1])
      /\ Unresolved(served[2]) )
    => /\ Returned
       /\ Len(calls) = 2
       /\ LastOut = Last
       /\ made_query = TRUE
       /\ CachedAs(None, None)
       /\ \A k \in DOMAIN searches_seen : k[1] # PyStr("wi")

\* the wi query was itself answered with status 4 and a further work
C12_SecondLevelMultiWork ==
    /\ Ran /\ pc = "loop" /\ Len(served) = 2
    /\ MultiWork(served[1]) /\ HasWorkId(served[1])
    /\ MultiWork(served[2]) /\ HasWorkId(served[2])
    /\ Len(calls) = 2 /\ LastOut = Last
    /\ searches_seen[LastKey] = [ddc |-> None, lcc |-> None]

\* C13: a call of process_row makes at most two requests: none when the row
\* is skipped, has no key or its key is in the cache; otherwise one, and a
\* second exactly when the first answer is a multi-work answer with a work
\* identifier, which is followed up.  (Calls that end in an exception are
\* counted like the others.)
C13_AtMostTwoCalls ==
    Ran =>
        /\ Len(calls) <= 2 /\ Len(served) = Len(calls)
        /\ ( \/ LastSkipped \/ LastKey[1] = None
             \/ LastKey \in DOMAIN seen_before ) <=> calls = <<>>
        /\ Len(calls) = 2 <=>
               served # <<>> /\ MultiWork(served[1]) /\ HasWorkId(served[1])
        /\ ( /\ served # <<>>
             /\ \/ SingleWork(served[1])
                \/ Unreadable(served[1])
                \/ Parsed(served[1]) /\ served[1].code >= 100
                \/ MultiWork(served[1]) /\ ~HasWorkId(served[1]) )
           => Len(calls) = 1
        /\ Len(calls) = 2 => calls[2] # calls[1]

\* one iteration made two requests, another one, another none
C13_TwoCallsMade ==
    /\ Len(records_in) = 3 /\ pc = "loop"
    /\ Len(calls) = 2 /\ MultiWork(served[1]) /\ Unresolved(served[2])
    /\ Cardinality(DOMAIN searches_seen) = 2
    /\ query_count = 2

\* the status extract_response reads from an answer's body (None from no body)
BodyOf(a) == IF a.net = "ok" THEN PyStr(a) ELSE None

\* C14: extract_response does not raise: for every answer given to the
\* program it returns an integer or None, and None when there is no body,
\* the body is not well-formed, has no response element, or its response
\* element has no code attribute or one that is not an integer.
C14_ExtractNeverRaises ==
    \A i \in 1..Len(served) :
        LET status == extract_response(BodyOf(served[i]))
        IN /\ status.raised = ""
           /\ status.value = None \/ TypeOf(status.value) = "int"
           /\ ~Parsed(served[i]) => status.value = None
           /\ Parsed(served[i]) => status.value = PyInt(served[i].code)

\* a free-text value as it is sent: in quotation marks when exact
Quoted(text, exact) == IF exact THEN "\"" \o text \o "\"" ELSE text

\* C15: in the first request of a row the title of a title search, and the
\* author and the title of a bib search (in whichever of the two parameters
\* each is sent), are in quotation marks exactly when exact_searches is on;
\* an isbn or issn value is sent as it is under either setting; and the wi
\* request that follows a multi-work answer carries the work identifier as
\* it is, under either setting.
C15_ExactQuoting ==
    Ran /\ calls # <<>> =>
        LET type == LastSearch.search_type[2]
            exact == cfg.exact_searches
        IN /\ type \in {"isbn", "issn"} =>
                  calls[1] = UrlOf(type \o "=" \o LastSearch.data[2])
           /\ type = "title" =>
                  calls[1] = UrlOf("title=" \o Quoted(LastSearch.data[2], exact))
           /\ type = "bib" =>
                  LET author == Quoted(GetItem(Last, cfg.columns[3])[2], exact)
                      title == Quoted(GetItem(Last, cfg.columns[4])[2], exact)
                  IN calls[1] \in
                         { UrlOf("author=" \o author \o "&title=" \o title),
                           UrlOf("author=" \o title \o "&title=" \o author) }
           /\ Len(calls) = 2 =>
                  \E i \in 1..Len(served[1].works) :
                      calls[2] = UrlOf("wi=" \o served[1].works[i][2])

\* with exact_searches off, an unquoted title search was followed by a wi
\* request
C15_FuzzyTitleThenWork ==
    /\ Ran /\ pc = "loop" /\ cfg.exact_searches = FALSE
    /\ Len(calls) = 2
    /\ calls[1] = UrlOf("title=Roughing It")
    /\ calls[2] = UrlOf("wi=12345")

\* C16: whenever the ISBN column is set, by name or by 0-based number (0
\* included), and the row's cell in it is not empty, the search is an isbn
\* search with that cell's value, and the request carries it; the ISBN is
\* passed over only when its column is not set or the cell is empty.
C16_IsbnSelected ==
    Ran /\ ~LastSkipped =>
        /\ Filled(Last, 1) =>
               /\ LastSearch.search_type = PyStr("isbn")
               /\ LastSearch.data = GetItem(Last, cfg.columns[1])
               /\ calls # <<>> =>
                      calls[1] = UrlOf("isbn=" \o GetItem(Last, cfg.columns[1])[2])
        /\ LastSearch.search_type # PyStr("isbn") =>
               \/ ~Configured(1)
               \/ GetItem(Last, cfg.columns[1]) = PyStr("")

\* C17: the request of a bib search, built from a row with author and title
\* filled, has the row's author as its author parameter and the row's title
\* as its title parameter.
C17_BibParameters ==
    ( /\ Ran /\ ~LastSkipped /\ calls # <<>>
      /\ LastSearch.search_type = PyStr("bib") )
    => calls[1] =
           UrlOf("author="
                 \o Quoted(GetItem(Last, cfg.columns[3])[2], cfg.exact_searches)
                 \o "&title="
                 \o Quoted(GetItem(Last, cfg.columns[4])[2], cfg.exact_searches))

\* the first answer gives extract_response a status: None, or any integer
HasStatus(a) == Unreadable(a) \/ a.response = "absent" \/ Parsed(a)

\* C18: whatever status the first query comes to (None, 0, 2, 4, 100 or
\* above, or another integer such as 1 or 3), process_row returns a row and
\* a boolean, and a call that made a request has put an entry in the cache
\* under the row's key.
C18_AlwaysReturnsPair ==
    Ran /\ served # <<>> /\ HasStatus(served[1]) =>
        /\ Returned
        /\ made_query \in BOOLEAN
        /\ SameCells(Last, LastOut)
        /\ LastKey \in DOMAIN searches_seen

\* C19: a positional row whose key is in the cache gets the cached ddc and
\* lcc as two cells added at its end and is returned with query_made false,
\* with no exception and no request.
C19_ListCacheHit ==
    ( /\ Ran /\ TypeOf(Last) = "list" /\ Searched(Last)
      /\ LastKey \in DOMAIN seen_before )
    => /\ Returned
       /\ LastOut = PyList(Last[2] \o <<seen_before[LastKey].ddc,
                                        seen_before[LastKey].lcc>>)
       /\ made_query = FALSE
       /\ calls = <<>>
       /\ searches_seen = seen_before

\* C20: the loop sleeps only in the iteration of a row for which query_made
\* is true, so after a query count that the iteration has just reached and
\* that is a multiple of small_count; a row with query_made false is followed
\* by no sleep whatever the count is, and there is no sleep while the count
\* is 0.
C20_PauseOnlyAfterQuery ==
    [][ records_in' # records_in =>
            /\ slept' > 0 =>
                   /\ made_query' = TRUE
                   /\ query_count' = query_count + 1
                   /\ query_count' % rate_config(cfg.rate).small_count = 0
            /\ made_query' = FALSE => slept' = 0 /\ query_count' = query_count
            /\ query_count' = 0 => slept' = 0
      ]_vars

\* a row found in the cache while the count stood at a multiple of both
\* thresholds: no sleep
C20_NoPauseOnCacheHit ==
    /\ Ran /\ pc = "loop" /\ made_query = FALSE /\ calls = <<>>
    /\ Searched(Last) /\ LastKey \in DOMAIN seen_before
    /\ query_count = rate_config(cfg.rate).large_count
    /\ slept = 0

====
